---- MODULE Spec2Model ----
(***************************************************************************)
(* Validator synchronisation pipeline of service/blockchain_service.py:    *)
(* update_blockchain_data (probe, fetch, upsert pass, identity, metadata   *)
(* and status passes) over the validators table of db/database_manager.py. *)
(***************************************************************************)
EXTENDS Integers, Sequences, FiniteSets, TLC

(* ---------------------------- bounds ----------------------------------- *)
MaxPages == 2       \* pages requested by one fetch_validators call
MaxFetched == 2     \* entries accumulated by one fetch_validators call
MaxTotal == 2       \* largest total the server reports

(* ------------------------ program constants ---------------------------- *)
AddrLen == 40

(* ---------------------------- values ----------------------------------- *)
Null == "NULL"

A1 == "0123456789abcdef0123456789abcdef01234567"
A2 == "89abcdef0123456789abcdef0123456789abcdef"
AShort == "0123abcd"
ALong == "0123456789abcdef0123456789abcdef012345678"
AUpper == "0123456789ABCDEF0123456789ABCDEF01234567"
ANonHex == "zzzzzzzzzzzzzzzzzzzzzzzzzzzzzzzzzzzzzzzz"
AShort39 == "0123456789abcdef0123456789abcdef0123456"
AEmpty == ""

\* addresses the validators endpoint serves
RpcAddrs == {A1, A2}
\* voting_power as the endpoint serves it: a decimal string, kept as digits
RpcPowers == {<<7>>, <<1, 0>>}
Heights == {500}

VAddrs == {"tnam1a"}
CKeys == {"tpknam1"}
Rates == {"0.05"}

\* the value MySQL stores in the BIGINT column for a decimal string
RECURSIVE StrToInt(_)
StrToInt(ds) ==
    IF Len(ds) = 0 THEN 0
    ELSE 10 * StrToInt(SubSeq(ds, 1, Len(ds) - 1)) + ds[Len(ds)]

VARIABLES
    store,                \* rows of the validators table, in validator_id order
    pc,                   \* position of the worker inside update_blockchain_data
    height_response,      \* Result of fetch_height
    validators_response,  \* Result of fetch_validators
    page,                 \* fetch_validators: page counter
    validators_info,      \* fetch_validators: accumulated entries
    total_validators,     \* fetch_validators: total of the last page
    todo,                 \* remaining items of the loop being executed
    outcome,              \* how the cycle ended
    wrote,                \* history: an INSERT/UPDATE was issued in this cycle
    inserted,             \* history: rows inserted by the upsert pass
    spawned,              \* history: a namadac process was started in this cycle
    dbFault,              \* history: the store rejected a statement in this pass
    served,               \* history: entries the endpoint served, in page order
    totalConst,           \* history: every page of this fetch reported the same total
    declared,             \* history: the total every page of the fetch declared, or -1
    shrunk,               \* history: the last page's total was below the entries held before it
    ev,                   \* history: the last per-item step
    call                  \* direct call of a resolver function

vars == <<store, pc, height_response, validators_response, page,
          validators_info, total_validators, todo, outcome, wrote, inserted,
          spawned, dbFault, served, totalConst, declared, shrunk, ev, call>>

cycleVars == <<store, pc, height_response, validators_response, page,
               validators_info, total_validators, todo, outcome, wrote,
               inserted, spawned, dbFault, served, totalConst, declared, shrunk, ev>>

(* --------------------------- the table --------------------------------- *)
\* variant: the insert also fills status
NewRow_StatusDefault(tm, vp) ==
    [tendermint_address |-> tm, voting_power |-> vp,
     validator_address |-> Null, consensus_key |-> Null,
     email |-> Null, website |-> Null, discord_handle |-> Null,
     avatar |-> Null, commission_rate |-> Null, status |-> "none"]

\* insert_data({'tendermint_address', 'voting_power'}): other columns NULL
NewRow(tm, vp) ==
    [tendermint_address |-> tm, voting_power |-> vp,
     validator_address |-> Null, consensus_key |-> Null,
     email |-> Null, website |-> Null, discord_handle |-> Null,
     avatar |-> Null, commission_rate |-> Null, status |-> Null]

\* variant: the lookup only sees the first row of the table
SelectByTm_FirstRowOnly(s, tm) ==
    {i \in 1..Len(s) : i = 1 /\ s[i].tendermint_address = tm}

\* SELECT validator_id FROM validators WHERE tendermint_address = %s
SelectByTm(s, tm) == {i \in 1..Len(s) : s[i].tendermint_address = tm}

NoResponse == [status |-> "none", height |-> 0, catching_up |-> FALSE, data |-> <<>>]
NoEv == [op |-> "none", id |-> 0, res |-> "none", db |-> "none",
         va |-> Null, ck |-> Null, flag |-> FALSE, info |-> "none"]
NoCall == [fn |-> "none", arg |-> Null, run |-> Null, result |-> Null]

Init ==
    /\ store = <<>>
    /\ pc = "idle"
    /\ height_response = NoResponse
    /\ validators_response = NoResponse
    /\ page = 0
    /\ validators_info = <<>>
    /\ total_validators = 0
    /\ todo = <<>>
    /\ outcome = "none"
    /\ wrote = FALSE
    /\ inserted = 0
    /\ spawned = FALSE
    /\ dbFault = FALSE
    /\ served = <<>>
    /\ totalConst = TRUE
    /\ declared = -1
    /\ shrunk = FALSE
    /\ ev = NoEv
    /\ call = NoCall

(* ----------------------- scheduler: start a cycle ---------------------- *)
StartCycle ==
    /\ pc = "idle"
    /\ pc' = "probe"
    /\ height_response' = NoResponse
    /\ validators_response' = NoResponse
    /\ page' = 0
    /\ validators_info' = <<>>
    /\ total_validators' = 0
    /\ todo' = <<>>
    /\ outcome' = "running"
    /\ wrote' = FALSE
    /\ inserted' = 0
    /\ spawned' = FALSE
    /\ dbFault' = FALSE
    /\ served' = <<>>
    /\ totalConst' = TRUE
    /\ declared' = -1
    /\ shrunk' = FALSE
    /\ ev' = NoEv
    /\ UNCHANGED <<store, call>>

(* ------------------------------ probe ---------------------------------- *)
\* fetch_height: the Result for a response of the status endpoint
FetchHeight(kind, h, cu) ==
    IF kind = "ok"
    THEN [status |-> "ok", height |-> h, catching_up |-> cu, data |-> <<>>]
    ELSE [status |-> "fail", height |-> 0, catching_up |-> FALSE, data |-> <<>>]

\* variant: the catching_up test is missing
AfterProbe_IgnoreSyncing(r) ==
    IF r.status # "ok" THEN "probe_failed" ELSE "fetch"

\* update_blockchain_data after fetch_height: where the cycle goes next
AfterProbe(r) ==
    IF r.status # "ok" THEN "probe_failed"
    ELSE IF r.catching_up THEN "syncing"
    ELSE "fetch"

\* session.get(url) and subprocess.run(command, ...) are given no timeout:
\* when the peer never answers, the call never returns and the worker stays
\* inside it
NeverReturns(op) ==
    /\ pc' = "hung"
    /\ ev' = [NoEv EXCEPT !.op = op, !.res = "hang"]
    /\ UNCHANGED <<store, height_response, validators_response, page,
                   validators_info, total_validators, todo, outcome, wrote,
                   inserted, spawned, dbFault, served, totalConst, declared,
                   shrunk, call>>

Probe ==
    /\ pc = "probe"
    /\ \/ /\ \E kind \in {"ok", "neterr", "noshape"}, h \in Heights, cu \in BOOLEAN :
               LET r == FetchHeight(kind, h, cu)
                   nxt == AfterProbe(r)
               IN /\ height_response' = r
                  /\ IF nxt = "fetch"
                     THEN /\ pc' = "fetch"
                          /\ page' = 1
                          /\ outcome' = outcome
                     ELSE /\ pc' = "idle"
                          /\ page' = page
                          /\ outcome' = nxt
          /\ UNCHANGED <<store, validators_response, validators_info,
                         total_validators, todo, wrote, inserted, spawned,
                         dbFault, served, totalConst, declared, shrunk, ev, call>>
       \/ NeverReturns("probe")

(* ------------------------------ fetch ---------------------------------- *)
Entries == [address : RpcAddrs, voting_power : RpcPowers]

SeqsUpTo(S, n) == UNION {[1..k -> S] : k \in 0..n}

\* validators_info.extend([...]) for the entries of one page
Extend(acc, entries) == acc \o entries

\* variant: the loop stops one entry early
PagingDone_OffByOne(acc, total) == Len(acc) + 1 >= total

\* if len(validators_info) >= total_validators: break
PagingDone(acc, total) == Len(acc) >= total

FailedFetch == [status |-> "fail", height |-> 0, catching_up |-> FALSE, data |-> <<>>]

\* the ways a page request fails: connection or HTTP error (raise_for_status),
\* a body without result.validators, a page without total or an entry
\* without address / voting_power (KeyError)
PageFailures == {"neterr", "noshape", "nokey"}

\* variant: the failure hands back what was accumulated
PageFailure_KeepsAccumulated(kind, acc) ==
    [status |-> "fail", height |-> 0, catching_up |-> FALSE, data |-> acc]

\* return Result(False, error=...) of the else branch and of the except
\* clause; validators_info (acc) is not part of it
PageFailure(kind, acc) == FailedFetch

FetchedOk(acc) == [status |-> "ok", height |-> 0, catching_up |-> FALSE, data |-> acc]

\* one iteration of the while loop of fetch_validators; the response is
\*   a failure: connection/HTTP error, a body that is not JSON, JSON without
\*              result.validators, or a missing total / entry key
\*   or a page: entries and a total
\* The locals (page, validators_info, total) end with the call.
FetchPage ==
    /\ pc = "fetch"
    /\ page <= MaxPages
    /\ \/ /\ \E entries \in SeqsUpTo(Entries, MaxFetched), total \in 0..MaxTotal :
               /\ Len(validators_info) + Len(entries) <= MaxFetched
               /\ LET acc == Extend(validators_info, entries)
                      const == (totalConst /\ (page = 1 \/ total = total_validators))
                  IN /\ served' = served \o entries
                     /\ IF PagingDone(acc, total)
                        THEN /\ validators_response' = FetchedOk(acc)
                             /\ pc' = "fetched"
                             /\ page' = page
                             /\ validators_info' = <<>>
                             /\ total_validators' = 0
                             /\ totalConst' = TRUE
                             /\ declared' = IF const THEN total ELSE -1
                             /\ shrunk' = (total < Len(validators_info))
                        ELSE /\ validators_response' = validators_response
                             /\ pc' = pc
                             /\ page' = page + 1
                             /\ validators_info' = acc
                             /\ total_validators' = total
                             /\ totalConst' = const
                             /\ declared' = declared
                             /\ shrunk' = shrunk
          /\ UNCHANGED <<store, height_response, todo, outcome, wrote,
                         inserted, spawned, dbFault, ev, call>>
       \/ /\ \E kind \in PageFailures :
               validators_response' = PageFailure(kind, validators_info)
          /\ pc' = "fetched"
          /\ validators_info' = <<>>
          /\ total_validators' = 0
          /\ totalConst' = TRUE
          /\ UNCHANGED <<page, served, declared, shrunk>>
          /\ UNCHANGED <<store, height_response, todo, outcome, wrote,
                         inserted, spawned, dbFault, ev, call>>
       \/ NeverReturns("fetch")

\* variant: the success test is missing
AfterFetch_IgnoreFailure(r) == "upsert"

\* update_blockchain_data after fetch_validators returned
AfterFetch(r) == IF r.status # "ok" THEN "fetch_failed" ELSE "upsert"

CheckFetch ==
    /\ pc = "fetched"
    /\ IF AfterFetch(validators_response) = "upsert"
       THEN /\ pc' = "upsert"
            /\ todo' = validators_response.data
            /\ outcome' = outcome
       ELSE /\ pc' = "idle"
            /\ todo' = todo
            /\ outcome' = "fetch_failed"
    /\ served' = <<>>
    /\ declared' = -1
    /\ shrunk' = FALSE
    /\ page' = 0
    /\ UNCHANGED <<store, height_response, validators_response,
                   validators_info, total_validators, totalConst, wrote,
                   inserted, spawned, dbFault, ev, call>>

(* ------------------------ the store's statements ----------------------- *)
\* variant: the UPDATE has no WHERE clause
UpdateData_NoWhere(s, ids, updates) ==
    [i \in 1..Len(s) |->
        [c \in DOMAIN s[i] |->
            IF c \in DOMAIN updates THEN updates[c] ELSE s[i][c]]]

\* update_data(conditions, updates): SET the columns of updates in the rows
\* matching the conditions (ids is the set of matching validator_ids)
UpdateData(s, ids, updates) ==
    [i \in 1..Len(s) |->
        IF i \in ids
        THEN [c \in DOMAIN s[i] |->
                 IF c \in DOMAIN updates THEN updates[c] ELSE s[i][c]]
        ELSE s[i]]

\* variant: the insert replaces the table's rows
InsertData_Truncate(s, tm, vp) == <<NewRow(tm, vp)>>

\* insert_data(data): one new row, the next validator_id
InsertData(s, tm, vp) == Append(s, NewRow(tm, vp))

(* --------------------------- upsert pass ------------------------------- *)
\* variant: no lookup, every entry is inserted
UpsertEntry_AlwaysInsert(s, e) ==
    InsertData(s, e.address, StrToInt(e.voting_power))

\* variant: a rejected statement ends the loop
UpsertRest_StopOnFailure(rest, ok) == IF ok THEN rest ELSE <<>>

\* except Exception as e: logger.error(...): the for loop goes on with the
\* entries after the one whose statement was rejected
UpsertRest(rest, ok) == rest

\* body of the for loop over validators_response.data, store accepting
UpsertEntry(s, e) ==
    LET existing_validator == SelectByTm(s, e.address)
    IN IF existing_validator # {}
       THEN UpdateData(s, existing_validator,
                       [voting_power |-> StrToInt(e.voting_power)])
       ELSE InsertData(s, e.address, StrToInt(e.voting_power))

UpsertStep ==
    /\ pc = "upsert"
    /\ todo # <<>>
    /\ LET e == Head(todo)
       IN \E lookupOk \in BOOLEAN, writeOk \in BOOLEAN :
            /\ (~lookupOk => writeOk)
            /\ store' = IF lookupOk /\ writeOk THEN UpsertEntry(store, e) ELSE store
            /\ wrote' = (wrote \/ lookupOk)
            /\ inserted' = inserted + (Len(store') - Len(store))
            /\ dbFault' = (dbFault \/ ~lookupOk \/ ~writeOk)
            /\ ev' = [NoEv EXCEPT !.op = "upsert",
                                  !.res = IF SelectByTm(store, e.address) # {}
                                          THEN "update" ELSE "insert",
                                  !.db = IF lookupOk /\ writeOk THEN "ok" ELSE "fail"]
            /\ todo' = UpsertRest(Tail(todo), lookupOk /\ writeOk)
    /\ UNCHANGED <<pc, height_response, validators_response, page,
                   validators_info, total_validators, outcome, spawned,
                   served, totalConst, declared, shrunk, call>>

(* ----------------------- external resolver adapter --------------------- *)
\* A run of namadac: its exit code and what its stdout contains.
NoIdentity == [validator_address |-> Null, consensus_key |-> Null]

\* stdout of find-validator: the text after 'Found validator address "' and
\* after 'Consensus key: ', Null when the pattern is absent
FindOutputs == [addr : VAddrs \cup {Null}, key : CKeys \cup {Null}]
FindRuns == {[rc |-> 1, out |-> [addr |-> Null, key |-> Null]]}
            \cup {[rc |-> 0, out |-> o] : o \in FindOutputs}

\* variant: only too-short addresses are rejected
ParseTmAddress_MinLength(tm, run) ==
    IF Len(tm) < AddrLen
    THEN [res |-> "fail", err |-> "validation", invoked |-> FALSE, data |-> NoIdentity]
    ELSE IF run.rc # 0
    THEN [res |-> "raise", err |-> "nonzero", invoked |-> TRUE, data |-> NoIdentity]
    ELSE IF run.out.addr # Null /\ run.out.key # Null
    THEN [res |-> "ok", err |-> "none", invoked |-> TRUE,
          data |-> [validator_address |-> run.out.addr,
                    consensus_key |-> run.out.key]]
    ELSE [res |-> "fail", err |-> "parse", invoked |-> TRUE, data |-> NoIdentity]

\* parse_tm_address(tm_address); run is what subprocess.run would give
ParseTmAddress(tm, run) ==
    IF Len(tm) # AddrLen
    THEN [res |-> "fail", err |-> "validation", invoked |-> FALSE, data |-> NoIdentity]
    ELSE IF run.rc # 0
    THEN \* the handler's e.stdout.decode() raises AttributeError (text=True)
         [res |-> "raise", err |-> "nonzero", invoked |-> TRUE, data |-> NoIdentity]
    ELSE IF run.out.addr # Null /\ run.out.key # Null
    THEN [res |-> "ok", err |-> "none", invoked |-> TRUE,
          data |-> [validator_address |-> run.out.addr,
                    consensus_key |-> run.out.key]]
    ELSE [res |-> "fail", err |-> "parse", invoked |-> TRUE, data |-> NoIdentity]

MetaCols == {"email", "website", "discord_handle", "avatar", "commission_rate"}
NoMetadata == [c \in MetaCols |-> Null]

\* stdout of validator-metadata: the text after each label, Null when the
\* label is absent; the commission rate text may be non-numeric
MetaOutputs ==
    [email : {"ops@v.io", Null}, website : {"v.io", Null},
     discord_handle : {"v#1", Null}, avatar : {"v.png", Null},
     commission_rate : Rates \cup {"n/a", Null}]
MetaRuns == {[rc |-> 1, out |-> NoMetadata]}
            \cup {[rc |-> 0, out |-> o] : o \in MetaOutputs}

\* re.search(r'commission rate: ([\d.]+)', output): Null when there is no match
RateMatch(text) == IF text \in Rates THEN text ELSE Null

\* the five re.search(...) of fetch_validator_metadata, Null for no match
MetaMatches(out) ==
    [c \in MetaCols |-> IF c = "commission_rate" THEN RateMatch(out[c]) ELSE out[c]]

\* variant: a label without a match is stored as NULL instead of failing
FetchValidatorMetadata_Partial(va, run) ==
    IF va = Null
    THEN [res |-> "raise", err |-> "null_address", invoked |-> FALSE, data |-> NoMetadata]
    ELSE IF run.rc # 0
    THEN [res |-> "raise", err |-> "nonzero", invoked |-> TRUE, data |-> NoMetadata]
    ELSE [res |-> "ok", err |-> "none", invoked |-> TRUE, data |-> MetaMatches(run.out)]

\* fetch_validator_metadata(validator_address)
FetchValidatorMetadata(va, run) ==
    IF va = Null
    THEN \* None in the argument list: subprocess.run raises TypeError
         [res |-> "raise", err |-> "null_address", invoked |-> FALSE, data |-> NoMetadata]
    ELSE IF run.rc # 0
    THEN [res |-> "raise", err |-> "nonzero", invoked |-> TRUE, data |-> NoMetadata]
    ELSE IF \E c \in MetaCols : MetaMatches(run.out)[c] = Null
    THEN \* None.group(1) raises AttributeError, which is caught
         [res |-> "fail", err |-> "parse", invoked |-> TRUE, data |-> NoMetadata]
    ELSE [res |-> "ok", err |-> "none", invoked |-> TRUE, data |-> MetaMatches(run.out)]

InConsensus == "is in the consensus set"
BelowThreshold == "is in the below-threshold set"
IsJailed == "is jailed"
NotValidator == "is either not a validator, or an epoch before the current epoch has been queried"
Phrases == {InConsensus, BelowThreshold, IsJailed, NotValidator}

\* stdout of validator-state, as the set of recognised phrases it contains;
\* namadac prints one message per query, so at most one of them
StateOutputs == {{}} \cup {{p} : p \in Phrases}
StateRuns == {[rc |-> 1, out |-> {}]} \cup {[rc |-> 0, out |-> o] : o \in StateOutputs}

\* variant: the else branch yields "none"
MatchState_DefaultNone(out) ==
    IF InConsensus \in out THEN "active"
    ELSE IF BelowThreshold \in out THEN "inactive"
    ELSE IF IsJailed \in out THEN "jailed"
    ELSE "none"

\* the if/elif chain of fetch_validator_state, "unknown" for the else branch
MatchState(out) ==
    IF InConsensus \in out THEN "active"
    ELSE IF BelowThreshold \in out THEN "inactive"
    ELSE IF IsJailed \in out THEN "jailed"
    ELSE IF NotValidator \in out THEN "none"
    ELSE "unknown"

\* fetch_validator_state(validator_address)
FetchValidatorState(va, run) ==
    IF va = Null
    THEN [res |-> "raise", err |-> "null_address", invoked |-> FALSE, data |-> Null]
    ELSE IF run.rc # 0
    THEN [res |-> "raise", err |-> "nonzero", invoked |-> TRUE, data |-> Null]
    ELSE IF MatchState(run.out) = "unknown"
    THEN [res |-> "fail", err |-> "parse", invoked |-> TRUE, data |-> Null]
    ELSE [res |-> "ok", err |-> "none", invoked |-> TRUE, data |-> MatchState(run.out)]

(* ---------------------- the three enrichment passes -------------------- *)
\* validators = db_manager.execute_query("SELECT <cols> FROM validators")
SelectAll(s, cols) ==
    [i \in 1..Len(s) |-> [c \in cols \cup {"validator_id"} |->
                             IF c = "validator_id" THEN i ELSE s[i][c]]]

\* the SELECT that opens a pass; a rejected query raises out of the cycle
SelectFor(from, to, cols) ==
    /\ pc = from
    /\ todo = <<>>
    /\ \E dbOk \in BOOLEAN :
         IF dbOk
         THEN /\ pc' = to
              /\ todo' = SelectAll(store, cols)
              /\ outcome' = outcome
              /\ dbFault' = FALSE
         ELSE /\ pc' = "idle"
              /\ todo' = todo
              /\ outcome' = "exception"
              /\ dbFault' = TRUE
    /\ ev' = [NoEv EXCEPT !.op = "select", !.info = to]
    /\ validators_response' = [validators_response EXCEPT !.data = <<>>]
    /\ UNCHANGED <<store, height_response, page, validators_info, inserted,
                   total_validators, wrote, spawned, served, totalConst, declared, shrunk, call>>

SelectAddress == SelectFor("upsert", "address", {"tendermint_address"})
SelectMetadata == SelectFor("address", "metadata", {"validator_address", "commission_rate"})
SelectStatus == SelectFor("metadata", "status", {"validator_address", "status"})

\* what one iteration of a pass does with the resolver's Result r:
\* update the row on success, log on failure, propagate a raised exception
PassStep(r, id, updates, dbOk) ==
    /\ store' = IF r.res = "ok" /\ dbOk THEN UpdateData(store, {id}, updates) ELSE store
    /\ wrote' = (wrote \/ r.res = "ok")
    /\ spawned' = (spawned \/ r.invoked)
    /\ dbFault' = (dbFault \/ ~dbOk)
    /\ IF r.res = "raise"
       THEN pc' = "idle" /\ outcome' = "exception" /\ todo' = <<>>
       ELSE todo' = Tail(todo) /\ UNCHANGED <<pc, outcome>>
    /\ UNCHANGED <<height_response, validators_response, page,
                   validators_info, total_validators, inserted, served,
                   totalConst, declared, shrunk, call>>

\* variant: the update also resets status
AddressUpdates_ResetStatus(r) ==
    [validator_address |-> r.data.validator_address,
     consensus_key |-> r.data.consensus_key,
     status |-> Null]

\* update_address: body of the for loop
AddressUpdates(r) ==
    [validator_address |-> r.data.validator_address,
     consensus_key |-> r.data.consensus_key]

AddressStep ==
    /\ pc = "address"
    /\ todo # <<>>
    /\ LET v == Head(todo)
       IN \/ \E run \in FindRuns, dbOk \in BOOLEAN :
               LET r == ParseTmAddress(v.tendermint_address, run)
               IN /\ (r.res # "ok" => dbOk)
                  /\ PassStep(r, v.validator_id, AddressUpdates(r), dbOk)
                  /\ ev' = [NoEv EXCEPT !.op = "address", !.id = v.validator_id,
                               !.res = r.res, !.info = r.err,
                               !.db = IF r.res # "ok" THEN "none"
                                      ELSE IF dbOk THEN "ok" ELSE "fail",
                               !.va = IF r.res = "ok" THEN run.out.addr ELSE Null,
                               !.ck = IF r.res = "ok" THEN run.out.key ELSE Null,
                               !.flag = r.invoked]
          \/ /\ \E run \in FindRuns : ParseTmAddress(v.tendermint_address, run).invoked
             /\ NeverReturns("address")

\* update_metadata: body of the for loop
MetadataUpdates(r) == r.data

MetadataStep ==
    /\ pc = "metadata"
    /\ todo # <<>>
    /\ LET v == Head(todo)
       IN \/ \E run \in MetaRuns, dbOk \in BOOLEAN :
               LET r == FetchValidatorMetadata(v.validator_address, run)
               IN /\ (r.res # "ok" => dbOk)
                  /\ PassStep(r, v.validator_id, MetadataUpdates(r), dbOk)
                  /\ ev' = [NoEv EXCEPT !.op = "metadata", !.id = v.validator_id,
                               !.res = r.res, !.info = r.err,
                               !.db = IF r.res # "ok" THEN "none"
                                      ELSE IF dbOk THEN "ok" ELSE "fail",
                               !.flag = (r.invoked /\ run.rc = 0
                                         /\ \E c \in MetaCols : run.out[c] = Null)]
          \/ /\ \E run \in MetaRuns : FetchValidatorMetadata(v.validator_address, run).invoked
             /\ NeverReturns("metadata")

\* update_status: body of the for loop
StatusUpdates(r) == [status |-> r.data]

StatusStep ==
    /\ pc = "status"
    /\ todo # <<>>
    /\ LET v == Head(todo)
       IN \/ \E run \in StateRuns, dbOk \in BOOLEAN :
               LET r == FetchValidatorState(v.validator_address, run)
               IN /\ (r.res # "ok" => dbOk)
                  /\ PassStep(r, v.validator_id, StatusUpdates(r), dbOk)
                  /\ ev' = [NoEv EXCEPT !.op = "status", !.id = v.validator_id,
                               !.res = r.res,
                               !.db = IF r.res # "ok" THEN "none"
                                      ELSE IF dbOk THEN "ok" ELSE "fail",
                               !.info = IF r.res = "raise" THEN r.err
                                        ELSE IF run.out = {} THEN "unrecognised"
                                        ELSE CHOOSE p \in run.out : TRUE]
          \/ /\ \E run \in StateRuns : FetchValidatorState(v.validator_address, run).invoked
             /\ NeverReturns("status")

\* update_status returned: update_blockchain_data returns normally
Finish ==
    /\ pc = "status"
    /\ todo = <<>>
    /\ pc' = "idle"
    /\ outcome' = "ok"
    /\ ev' = NoEv
    /\ UNCHANGED <<store, height_response, validators_response, page,
                   validators_info, total_validators, todo, wrote, inserted,
                   spawned, dbFault, served, totalConst, declared, shrunk, call>>

Next ==
    \/ StartCycle
    \/ Probe
    \/ FetchPage
    \/ CheckFetch
    \/ UpsertStep
    \/ SelectAddress
    \/ AddressStep
    \/ SelectMetadata
    \/ MetadataStep
    \/ SelectStatus
    \/ StatusStep
    \/ Finish

Spec == Init /\ [][Next]_vars

TypeOK ==
    /\ pc \in {"idle", "probe", "fetch", "fetched", "upsert", "address",
               "metadata", "status", "hung"}
    /\ \A i \in 1..Len(store) : store[i].tendermint_address \in RpcAddrs

(* ------------------ direct calls of the resolver functions ------------- *)
\* arguments a caller can pass to parse_tm_address
TmInputs == {A1, A2, AUpper, ANonHex, AShort, AShort39, ALong, AEmpty}

CallParseTmAddress ==
    /\ \E tm \in TmInputs, run \in FindRuns :
         call' = [fn |-> "parse_tm_address", arg |-> tm, run |-> run,
                  result |-> ParseTmAddress(tm, run)]
    /\ UNCHANGED cycleVars

CallFetchValidatorMetadata ==
    /\ \E va \in VAddrs \cup {Null}, run \in MetaRuns :
         call' = [fn |-> "fetch_validator_metadata", arg |-> va, run |-> run,
                  result |-> FetchValidatorMetadata(va, run)]
    /\ UNCHANGED cycleVars

CallFetchValidatorState ==
    /\ \E va \in VAddrs \cup {Null}, run \in StateRuns :
         call' = [fn |-> "fetch_validator_state", arg |-> va, run |-> run,
                  result |-> FetchValidatorState(va, run)]
    /\ UNCHANGED cycleVars

NextResolve ==
    \/ CallParseTmAddress
    \/ CallFetchValidatorMetadata
    \/ CallFetchValidatorState

SpecResolve == Init /\ [][NextResolve]_vars

(* ============================== claims ================================= *)
NoDuplicates(list) == \A i, j \in 1..Len(list) : list[i] = list[j] => i = j

AtMostOneRowPerTm(s) ==
    \A i, j \in 1..Len(s) :
        s[i].tendermint_address = s[j].tendermint_address => i = j

\* the upsert pass run over a whole list with the store accepting every statement
RECURSIVE UpsertAll(_, _)
UpsertAll(s, list) ==
    IF list = <<>> THEN s
    ELSE UpsertAll(UpsertEntry(s, Head(list)), Tail(list))

\* the BIGINT a served voting_power string stands for
PowerOf(ds) == IF ds = <<7>> THEN 7 ELSE IF ds = <<1, 0>> THEN 10 ELSE -1

CaughtUpProbe == height_response.status = "ok" /\ height_response.catching_up

\* C1: a cycle whose probe succeeded with catching_up = true issues no INSERT
\* and no UPDATE and leaves every row of the store as it was, whatever the
\* store held.
C1_NoWriteWhileCatchingUp ==
    [][(height_response'.status = "ok" /\ height_response'.catching_up)
         => (store' = store /\ ~wrote' /\ pc' = "idle")]_vars

C1_Witness ==
    /\ CaughtUpProbe
    /\ outcome = "syncing"
    /\ Len(store) = 2

\* C2: a non-zero exit of the state tool for one validator of the status pass
\* does not end the cycle with an exception (the pass goes on to the other
\* validators).
C2_StatusFailureIsolated ==
    ~(pc = "idle" /\ outcome = "exception"
      /\ ev.op = "status" /\ ev.info = "nonzero")

\* C3: when every page declared the same total T and the endpoint served no
\* more than T entries, fetch_validators returns exactly the T served entries,
\* each once and in page order, duplicate-free when the served ones are.
C3_FetchReturnsAllPages ==
    (pc = "fetched" /\ validators_response.status = "ok"
     /\ declared >= 0 /\ Len(served) <= declared)
        => /\ validators_response.data = served
           /\ Len(validators_response.data) = declared
           /\ (NoDuplicates(served) => NoDuplicates(validators_response.data))

C3_Witness ==
    /\ pc = "fetched"
    /\ validators_response.status = "ok"
    /\ declared = 2
    /\ page = 2
    /\ Len(served) = 2
    /\ NoDuplicates(served)

UpsertPassDone == pc = "upsert" /\ todo = <<>> /\ ~dbFault

\* C4: after an upsert pass in which the store accepted every statement,
\* running the pass again over the same entries changes no row and inserts
\* none, and no tendermint_address has more than one row.
C4_UpsertIdempotent ==
    UpsertPassDone =>
        /\ UpsertAll(store, validators_response.data) = store
        /\ AtMostOneRowPerTm(store)

C4_Witness ==
    /\ UpsertPassDone
    /\ Len(validators_response.data) = 2
    /\ inserted = 1
    /\ Len(store) = 2

\* C5: when the metadata tool's output lacks one of the five labels,
\* fetch_validator_metadata returns a failure and the metadata pass leaves
\* the store untouched.
C5_MetadataAllOrNothing ==
    [][(ev'.op = "metadata" /\ ev'.flag)
         => (ev'.res = "fail" /\ store' = store)]_vars

C5_Witness ==
    /\ ev.op = "metadata"
    /\ ev.flag
    /\ ev.res = "fail"
    /\ store[ev.id].email # Null

\* C6: parse_tm_address spawns the tool for a 40-character address and, for
\* any other length, returns the validation failure without spawning it.
C6_LengthValidation ==
    call.fn = "parse_tm_address" =>
        IF Len(call.arg) = 40
        THEN call.result.invoked /\ call.result.err # "validation"
        ELSE /\ call.result.res = "fail"
             /\ call.result.err = "validation"
             /\ ~call.result.invoked

C6_Witness ==
    /\ call.fn = "parse_tm_address"
    /\ call.arg = ALong
    /\ call.run.rc = 0
    /\ call.result.res = "fail"

\* C7: an identity step whose resolution succeeded sets validator_address and
\* consensus_key of its row to the resolved values and changes nothing else
\* in the table (nothing at all when the store rejects the UPDATE).
C7_IdentityFrame ==
    [][(ev'.op = "address" /\ ev'.res = "ok")
         => IF ev'.db = "ok"
            THEN store' = [store EXCEPT ![ev'.id].validator_address = ev'.va,
                                        ![ev'.id].consensus_key = ev'.ck]
            ELSE store' = store]_vars

C7_Witness ==
    /\ ev.op = "address"
    /\ ev.res = "ok"
    /\ ev.db = "ok"
    /\ Len(store) = 2
    /\ store[ev.id].validator_address = ev.va
    /\ store[ev.id].status = "jailed"
    /\ \E i \in 1..Len(store) : i # ev.id /\ store[i].status = "active"

\* C8: in the status pass "is jailed" is stored as jailed and the
\* recognised-absent phrase as none; output with none of the four phrases is
\* a failure and leaves the store as it was.
C8_StatusMapping ==
    [][ev'.op = "status" =>
         /\ (ev'.info = IsJailed =>
               /\ ev'.res = "ok"
               /\ (ev'.db = "ok" => store'[ev'.id].status = "jailed"))
         /\ (ev'.info = NotValidator =>
               /\ ev'.res = "ok"
               /\ (ev'.db = "ok" => store'[ev'.id].status = "none"))
         /\ (ev'.info = "unrecognised" =>
               /\ ev'.res = "fail"
               /\ store' = store)]_vars

C8_Witness ==
    /\ ev.op = "status"
    /\ ev.info = "unrecognised"
    /\ ev.res = "fail"
    /\ store[ev.id].status = "jailed"

\* C9: the upsert step for a fetched entry whose tendermint_address has no
\* row appends exactly one row with that address and the fetched voting
\* power, every other column NULL, and changes no other row.
C9_InsertNewValidator ==
    [][(pc = "upsert" /\ todo # <<>> /\ ev'.op = "upsert" /\ ev'.db = "ok"
        /\ \A i \in 1..Len(store) :
              store[i].tendermint_address # Head(todo).address)
         => store' = Append(store,
               [tendermint_address |-> Head(todo).address,
                voting_power |-> PowerOf(Head(todo).voting_power),
                validator_address |-> Null, consensus_key |-> Null,
                email |-> Null, website |-> Null, discord_handle |-> Null,
                avatar |-> Null, commission_rate |-> Null, status |-> Null])]_vars

C9_Witness ==
    /\ ev.op = "upsert"
    /\ ev.res = "insert"
    /\ ev.db = "ok"
    /\ Len(store) = 2
    /\ store[1].status # Null
    /\ store[2].voting_power = 10

\* C10: after a failed probe or a failed fetch nothing is written, no tool is
\* spawned, and the cycle goes nowhere but to its end.
C10_AbortOnProbeOrFetchFailure ==
    [][(height_response'.status = "fail" \/ validators_response'.status = "fail")
         => /\ store' = store
            /\ ~wrote'
            /\ ~spawned'
            /\ pc' \in {"fetched", "idle"}]_vars

C10_Witness ==
    /\ outcome = "fetch_failed"
    /\ height_response.status = "ok"
    /\ validators_response.status = "fail"
    /\ Len(store) = 2

\* C11: a fetch in which a page fails, the first or a later one, yields a
\* failed Result that carries no entry, and nothing accumulated from earlier
\* pages reaches the upsert pass.
C11_FetchWholeOrNothing ==
    validators_response.status = "fail" =>
        /\ validators_response.data = <<>>
        /\ todo = <<>>
        /\ pc \in {"fetched", "idle"}

C11_Witness ==
    /\ pc = "fetched"
    /\ validators_response.status = "fail"
    /\ page = 2
    /\ Len(served) = 1

\* C12: when a page reports a total below the number of entries accumulated
\* before it, fetch_validators returns a failure.
C12_ShrunkTotalIsFailure ==
    (pc = "fetched" /\ shrunk) => validators_response.status = "fail"

\* C13: a call of fetch_validators does not go on requesting pages: it has
\* returned before it would request page MaxPages + 1, also when every page
\* is well-formed and its total stays above what is accumulated.
C13_PagingReturns ==
    ~(pc = "fetch" /\ page > MaxPages /\ Len(validators_info) < total_validators)

\* C15: no step removes a row, and the tendermint_address of a row never
\* changes: the persisted addresses only grow.
C15_NoDeleteNoRekey ==
    [][/\ Len(store') >= Len(store)
       /\ \A i \in 1..Len(store) :
             store'[i].tendermint_address = store[i].tendermint_address]_vars

C15_Witness ==
    /\ pc = "idle"
    /\ outcome = "ok"
    /\ wrote
    /\ Len(store) = 2
    /\ store[1].tendermint_address = A2
    /\ store[1].status = "active"
    /\ store[2].validator_address # Null

\* C16: an identity step whose resolution did not succeed (validation
\* failure, parse failure or non-zero exit of the tool) leaves the table as it
\* was and the identity pass goes on with the next row.
C16_IdentityFailureIsolated ==
    [][(ev'.op = "address" /\ ev'.res \in {"fail", "raise"})
         => (store' = store /\ pc' = "address" /\ todo' = Tail(todo))]_vars

\* C17: a metadata or status step for a row whose validator_address is NULL
\* starts no tool, changes nothing and goes on with the next row of the pass.
C17_UnresolvedSkipped ==
    [][(pc \in {"metadata", "status"} /\ todo # <<>>
        /\ Head(todo).validator_address = Null)
         => /\ pc' = pc
            /\ todo' = Tail(todo)
            /\ store' = store
            /\ spawned' = spawned]_vars

\* C18: an upsert step whose lookup, insert or update the store rejected
\* leaves the table as it was and the loop goes on with the entries after it;
\* when the loop is over the identity pass is entered, rejected statements or
\* not.
C18_UpsertFailureIsolated ==
    [][/\ (ev'.op = "upsert" /\ ev'.db = "fail")
            => /\ pc' = "upsert"
               /\ todo' = Tail(todo)
               /\ outcome' = outcome
               /\ store' = store
       /\ (pc = "upsert" /\ todo = <<>>)
            => (ev'.op = "select" /\ ev'.info = "address")]_vars

C18_Witness ==
    /\ pc = "upsert"
    /\ ev.op = "upsert"
    /\ ev.db = "fail"
    /\ Len(todo) = 1
    /\ Len(validators_response.data) = 2

\* C19: no network call and no tool invocation keeps the worker waiting
\* without limit: a request or process that never answers is ended by a
\* timeout.
C19_CallsBounded == pc # "hung"

\* C20: a resolver whose tool exits non-zero returns a failed Result with the
\* tool-execution error; it raises nothing.
C20_NonZeroExitIsFailure ==
    (call.fn # "none" /\ call.result.invoked /\ call.run.rc # 0)
        => (call.result.res = "fail" /\ call.result.err = "nonzero")

\* the addresses of a fetched list are pairwise different
DistinctAddresses(list) ==
    \A i, j \in 1..Len(list) : list[i].address = list[j].address => i = j

\* C21: a fetched list in which a tendermint address occurs more than once is
\* an error: it is never handed to the upsert pass.
C21_DuplicatesAreError ==
    ~(pc = "upsert" /\ ~DistinctAddresses(validators_response.data))

\* C22: the upsert step for a fetched entry whose tendermint_address has a
\* row sets that row's voting_power to the fetched value and changes nothing
\* else: no other column, no other row, no new row.
C22_UpdateOnlyVotingPower ==
    [][(pc = "upsert" /\ todo # <<>> /\ ev'.op = "upsert" /\ ev'.db = "ok"
        /\ \E i \in 1..Len(store) :
              store[i].tendermint_address = Head(todo).address)
         => LET i == CHOOSE k \in 1..Len(store) :
                        store[k].tendermint_address = Head(todo).address
            IN store' = [store EXCEPT
                           ![i].voting_power = PowerOf(Head(todo).voting_power)]]_vars

C22_Witness ==
    /\ ev.op = "upsert"
    /\ ev.res = "update"
    /\ ev.db = "ok"
    /\ Len(store) = 2
    /\ store[1].voting_power = 10
    /\ store[2].voting_power = 7
    /\ store[1].status = "active"
    /\ store[2].email # Null

\* the pass that follows a position of the cycle
NextPosition(p) ==
    CASE p = "idle" -> "probe"
      [] p = "probe" -> "fetch"
      [] p = "fetch" -> "fetched"
      [] p = "fetched" -> "upsert"
      [] p = "upsert" -> "address"
      [] p = "address" -> "metadata"
      [] p = "metadata" -> "status"
      [] OTHER -> "idle"

\* the rows the upsert pass of this cycle inserted: the last ones of the table
InsertedThisCycle(i) == i > Len(store) - inserted /\ i <= Len(store)

\* C23: a cycle moves only forward through probe, fetch, upsert, identity,
\* metadata and status; a pass is entered only when the one before it has no
\* item left; the metadata and status passes work on every row with the
\* validator_address the identity pass left in it; and a cycle ends only
\* after every row it inserted and resolved was handed to the metadata and
\* the status resolver (cycles ended by a rejected SELECT aside).
StepOrder ==
    /\ pc' # pc => pc' \in {NextPosition(pc), "idle", "hung"}
    /\ (pc' # pc /\ pc' \in {"address", "metadata", "status"}) => todo = <<>>
    /\ (pc' # pc /\ pc' \in {"metadata", "status"}) =>
          /\ Len(todo') = Len(store')
          /\ \A i \in 1..Len(todo') : todo'[i].validator_id = i
    /\ pc' \in {"metadata", "status"} =>
          \A k \in 1..Len(todo') :
             todo'[k].validator_address
                 = store'[todo'[k].validator_id].validator_address
    /\ (pc \in {"address", "metadata", "status"} /\ todo # <<>>
        /\ ev'.res # "hang")
          => ev'.id = Head(todo).validator_id

EnrichedBeforeEnd ==
    (pc \in {"address", "metadata", "status"} /\ pc' = "idle"
     /\ ev'.op # "select")
        => \A i \in 1..Len(store) :
              (InsertedThisCycle(i) /\ store[i].validator_address # Null)
                 => /\ pc = "status"
                    /\ \A k \in 2..Len(todo) : todo[k].validator_id # i

C23_SameCycleEnrichment == [][StepOrder /\ EnrichedBeforeEnd]_vars

\* C24: the table never holds two rows with the same tendermint_address,
\* whatever the cycles fetched (repeated addresses included) and whichever
\* statements the store rejected.
C24_OneRowPerAddress == AtMostOneRowPerTm(store)

C24_Witness ==
    /\ pc = "upsert"
    /\ todo = <<>>
    /\ dbFault
    /\ Len(validators_response.data) = 2
    /\ ~DistinctAddresses(validators_response.data)
    /\ inserted = 1
    /\ Len(store) = 2

====
